---- MODULE Spec2Model ----
(***************************************************************************)
(* State-machine model of CloglogOrdinalBARTModel                          *)
(* (src/stochtree/cloglog_ordinal_bart.py): the model object's attributes, *)
(* the sample() driver loop with its retention logic, the Auxiliary Data   *)
(* Store it shares with the two samplers, and predict().                   *)
(*                                                                         *)
(* sample() is modelled step by step (pc is its position): the input       *)
(* checks and the setup (lines 88-270) are one step, and every statement   *)
(* group of the loop body (lines 271-345) is one step.                     *)
(*                                                                         *)
(* The samplers live in the compiled extension (stochtree_cpp, .sampler,   *)
(* .forest) and are not part of the Python sources.  Their draws are       *)
(* modelled from the specification as stamps: the value a sampler writes   *)
(* in iteration t of call c is a positive integer that identifies the      *)
(* sampler, the call and the iteration; 0 is the initial value.            *)
(***************************************************************************)
EXTENDS Integers, Sequences, FiniteSets, TLC

\* ---------------------------------------------------------------- bounds
MaxGfr == 1
MaxBurnin == 1
MaxMcmc == 3
MaxThin == 2
MaxN == 2
MaxLevel == 2

\* ------------------------------------------------------- enumerated inputs
XKinds == {"ndarray", "DataFrame", "list"}
XTestKinds == {"None", "ndarray", "list"}
YKinds == {"int_ndarray", "float_ndarray", "list"}
WeightKinds == {"None", "negative"}
ColChoices == {1, 2}
TestRowChoices == {2}

\* An attribute is Unset until sample() assigns it, then Some(value).
Unset == <<>>
Some(v) == <<v>>
Val(a) == a[1]
IsSet(a) == a # Unset

\* a column of a container that np.empty allocated and nothing wrote yet
Empty == <<>>

VARIABLES
    self,            \* the attributes of the model object
    pc,              \* position of sample(): "idle" between calls
    callNo,          \* number of sample() calls started on this object
    cfg,             \* the arguments of the running sample() call
    y,               \* y_train as passed to the last sample() call
    keep_idx,        \* np.arange(...) of the running call
    sample_counter,
    it,              \* position of the iterator of `for i in range(T)`
    i,               \* the Python variable i (rebound by the inner loops)
    keep_sample,
    aux,             \* the four auxiliary series of forest_dataset_train
    active_forest,   \* stamp of the iteration that last updated the forest
    calls,           \* log: one record per sample_one_iteration call of the last sample()
    writes,          \* log: one record per retention copy of this call;
                     \* test_pred: the copy called predict(forest_dataset_test)
    steps,           \* log: the steps the current iteration has executed
    outcome,         \* how the last sample()/predict() call ended
    made             \* history: the call that created the containers, the
                     \* call that created the snapshot sequence, and the
                     \* calls that ran to completion

vars == <<self, pc, callNo, cfg, y, keep_idx, sample_counter, it, i,
          keep_sample, aux, active_forest, calls, writes, steps, outcome,
          made>>

\* ------------------------------------------------------------- helpers
Max(a, b) == IF a >= b THEN a ELSE b

RECURSIVE SeqMax(_)
SeqMax(s) == IF Len(s) = 1 THEN s[1] ELSE Max(s[1], SeqMax(Tail(s)))

Vectors(n, S) == [1..n -> S]

Const(n, v) == [k \in 1..n |-> v]

\* ceil(a / b) for b > 0, as np.arange computes its length
CeilDiv(a, b) == IF a <= 0 THEN 0 ELSE ((a - 1) \div b) + 1

\* np.arange(start, stop, step), step >= 1
Arange(start, stop, step) ==
    [j \in 1..CeilDiv(stop - start, step) |-> start + (j - 1) * step]

\* `x in arr` for a numpy array
InArray(x, arr) == \E j \in 1..Len(arr) : arr[j] = x

Stride == MaxGfr + MaxBurnin + MaxMcmc + 2

\* iteration t (0-based) of call c (1-based), numbered from 1
Stamp(c, t) == (c - 1) * Stride + t + 1

\* the forest sample_one_iteration leaves, the latent values
\* UpdateLatentVariables draws and the cutpoints UpdateGammaParams draws in
\* iteration t of call c
ForestStamp(c, t) == 3 * Stamp(c, t)
LatentStamp(c, t) == 3 * Stamp(c, t) + 1
GammaStamp(c, t) == 3 * Stamp(c, t) + 2

\* exp() on the stamps: any positive, strictly increasing function serves
Exp(g) == g + 1

RECURSIVE SumExp(_, _)
SumExp(gamma, n) == IF n = 0 THEN 0 ELSE SumExp(gamma, n - 1) + Exp(gamma[n])

\* UpdateCumulativeExpSums: slot k (0-based) holds the sum of exp(gamma_j), j < k
CumulativeExpSums(gamma, n_levels) == [k \in 1..n_levels |-> SumExp(gamma, k - 1)]

\* ------------------------------------------------------------ the inputs
\* The data arguments of one sample() call.  yv is y_train's content; the
\* kinds stand for the Python types the checks of lines 88-101 look at.
DataInputs ==
    [X_train : XKinds, x_rows : 1..MaxN, x_cols : ColChoices,
     X_test : XTestKinds, test_rows : TestRowChoices, test_cols : ColChoices,
     y_kind : YKinds, weights : WeightKinds,
     yv : UNION {Vectors(n, -1..MaxLevel) : n \in 1..MaxN}]

Configs ==
    [num_gfr : 0..MaxGfr, num_burnin : 0..MaxBurnin,
     num_mcmc : 0..MaxMcmc, n_thin : 1..MaxThin]

NoCfg == [num_gfr |-> 0, num_burnin |-> 0, num_mcmc |-> 0, n_thin |-> 1]

\* the input checks without the negativity check of lines 102-103
CheckInputsNoSign(d) ==
    IF d.X_train = "list" THEN "X_train must be a pandas dataframe or numpy array"
    ELSE IF d.X_test = "list" THEN "X_test must be a pandas dataframe or numpy array"
    ELSE IF d.y_kind = "list" THEN "y_train must be a numpy array"
    ELSE IF d.y_kind = "float_ndarray" THEN "y_train must be an integer-valued numpy array"
    ELSE IF d.X_test # "None" /\ d.test_cols # d.x_cols
         THEN "X_train and X_test must have the same number of columns"
    ELSE IF Len(d.yv) # d.x_rows THEN "X_train and y_train must have the same number of rows"
    ELSE IF d.weights = "negative" THEN "variable_weights cannot have any negative weights"
    ELSE "ok"

\* lines 88-133: the message of the first check that fails, or "ok"
CheckInputs(d) ==
    IF d.X_train = "list" THEN "X_train must be a pandas dataframe or numpy array"
    ELSE IF d.X_test = "list" THEN "X_test must be a pandas dataframe or numpy array"
    ELSE IF d.y_kind = "list" THEN "y_train must be a numpy array"
    ELSE IF d.y_kind = "float_ndarray" THEN "y_train must be an integer-valued numpy array"
    ELSE IF \E k \in 1..Len(d.yv) : d.yv[k] < 0 THEN "y_train must be non-negative integer-valued"
    ELSE IF d.X_test # "None" /\ d.test_cols # d.x_cols
         THEN "X_train and X_test must have the same number of columns"
    ELSE IF Len(d.yv) # d.x_rows THEN "X_train and y_train must have the same number of rows"
    ELSE IF d.weights = "negative" THEN "variable_weights cannot have any negative weights"
    ELSE "ok"

\* the number of distinct values of y_train: len(np.unique(y_train))
NLevelsDistinct(yv) == Cardinality({yv[k] : k \in 1..Len(yv)})

\* line 167: np.max(np.unique(np.squeeze(y_train))) + 1
NLevels(yv) == SeqMax(yv) + 1

\* the level check off by one: a single category passes
TooFewLevelsBelowOne(n_levels) == n_levels < 1

\* line 170: the guard of the "at least 2 outcome categories" error
TooFewLevels(n_levels) == n_levels < 2

\* keep_idx that starts after the burn-in only, forgetting the warm start
KeepIdxFromBurnin(c) == Arange(c.num_burnin, c.num_burnin + c.num_mcmc, c.n_thin)

\* lines 184-187
KeepIdx(c) ==
    Arange(c.num_gfr + c.num_burnin, c.num_gfr + c.num_burnin + c.num_mcmc, c.n_thin)

\* line 271: the length of range(num_gfr + num_burnin + num_mcmc)
NumIterations(c) == c.num_gfr + c.num_burnin + c.num_mcmc

\* line 272
KeepSample(iv, kidx) == InArray(iv, kidx)

\* lines 277-302: the boolean passed just before num_threads
GfrArgument(iv, num_gfr) == IF iv > num_gfr - 1 THEN TRUE ELSE FALSE

\* a loop that resumes from the rebound variable i, as a while loop would
RangeNextRebound(cur, iv) == iv + 1

\* line 271: the value the iterator of range(T) yields after `cur`; the
\* iterator keeps its own position and does not read the variable i
RangeNext(cur, iv) == cur + 1

\* ------------------------------------------------------------ the object
\* lines 31-33: only the flag exists after construction
FreshSelf ==
    [sampled |-> Some(FALSE), covariate_preprocessor |-> Unset, has_test |-> Unset,
     n_train |-> Unset, n_test |-> Unset, num_covariates |-> Unset,
     n_levels |-> Unset, num_gfr |-> Unset, num_burnin |-> Unset,
     num_mcmc |-> Unset, forest_pred_train |-> Unset,
     forest_pred_test |-> Unset, gamma_samples |-> Unset,
     latent_samples |-> Unset, forest_samples |-> Unset, rows |-> Unset]

\* set_calls: the (dim_idx, element_idx) pairs set_auxiliary_data_value
\* has been called with on forest_dataset_train
NoAux == [latent |-> <<>>, pred |-> <<>>, gamma |-> <<>>, cumsum |-> <<>>,
          set_calls |-> {}]

NoOutcome == [op |-> "none", error |-> "none", msg |-> "none"]

NothingMade == [containers |-> 0, snapshots |-> 0, completed |-> {}]

Init ==
    /\ self = FreshSelf
    /\ pc = "idle"
    /\ callNo = 0
    /\ cfg = NoCfg
    /\ y = <<>>
    /\ keep_idx = <<>>
    /\ sample_counter = -1
    /\ it = -1
    /\ i = -1
    /\ keep_sample = FALSE
    /\ aux = NoAux
    /\ active_forest = 0
    /\ calls = <<>>
    /\ writes = <<>>
    /\ steps = <<>>
    /\ outcome = NoOutcome
    /\ made = NothingMade

\* lines 135-167: the attributes sample() assigns before the level check;
\* the preprocessor fitted by call c is named by c
WithDataAttributes(obj, d, c) ==
    [obj EXCEPT !.covariate_preprocessor = Some(c),
                !.has_test = Some(d.X_test # "None"),
                !.n_train = Some(Len(d.yv)),
                !.n_test = Some(IF d.X_test # "None" THEN d.test_rows ELSE 0),
                !.num_covariates = Some(d.x_cols),
                !.n_levels = Some(NLevels(d.yv))]

\* line 182: the first cutpoint, fixed for identifiability
gamma_0 == 0

\* a cutpoint series that also stores the fixed gamma_0
GammaSeriesLenWithFixed(n_levels) == n_levels

\* lines 244 and 253: the length of the cutpoint series (dim_idx = 2)
GammaSeriesLen(n_levels) == n_levels - 1

\* line 197: the number of rows of gamma_samples
GammaSamplesRows(n_levels) == n_levels - 1

\* lines 194-198: the first dimension (shape[0]) of each container
ContainerRows(obj) ==
    [forest_pred_train |-> Val(obj.n_train),
     forest_pred_test |-> Val(obj.n_test),
     gamma_samples |-> GammaSamplesRows(Val(obj.n_levels)),
     latent_samples |-> Val(obj.n_train)]

\* lines 190-198 and 218: the containers of a run that keeps n_keep draws
WithContainers(obj, c, n_keep) ==
    [obj EXCEPT !.num_gfr = Some(c.num_gfr),
                !.num_burnin = Some(c.num_burnin),
                !.num_mcmc = Some(c.num_mcmc),
                !.forest_pred_train = Some(Const(n_keep, Empty)),
                !.forest_pred_test =
                    IF Val(obj.has_test) THEN Some(Const(n_keep, Empty)) ELSE @,
                !.gamma_samples = Some(Const(n_keep, Empty)),
                !.latent_samples = Some(Const(n_keep, Empty)),
                !.forest_samples = Some(<<>>),
                !.rows = Some(ContainerRows(obj))]

\* lines 239-250: add_auxiliary_dimension allocates the four series,
\* zero-filled
AllocatedAux(n_train, n_levels) ==
    [latent |-> Const(n_train, 0), pred |-> Const(n_train, 0),
     gamma |-> Const(GammaSeriesLen(n_levels), 0),
     cumsum |-> Const(n_levels, 0), set_calls |-> {}]

\* the series dim_idx names
Series(a, dim) ==
    CASE dim = 0 -> a.latent [] dim = 1 -> a.pred
      [] dim = 2 -> a.gamma [] dim = 3 -> a.cumsum

\* element_idx (0-based) is a slot of series dim_idx
InSeries(a, dim, idx) == 0 <= idx /\ idx < Len(Series(a, dim))

\* forest_dataset_train.set_auxiliary_data_value(dim_idx, element_idx, v).
\* A call whose element_idx is no slot of the series changes no slot of it
\* (what the store does with it is decided in SampleSetup and
\* SetupStoreRejectsWrite).
SetAuxiliaryDataValue(a, dim, idx, v) ==
    LET logged == [a EXCEPT !.set_calls = @ \cup {<<dim, idx>>}]
    IN  IF ~InSeries(a, dim, idx) THEN logged
        ELSE CASE dim = 0 -> [logged EXCEPT !.latent[idx + 1] = v]
               [] dim = 1 -> [logged EXCEPT !.pred[idx + 1] = v]
               [] dim = 2 -> [logged EXCEPT !.gamma[idx + 1] = v]
               [] dim = 3 -> [logged EXCEPT !.cumsum[idx + 1] = v]

\* line 255: the element index the initial cutpoint i is stored at
GammaInitIndex(iv) == iv - 1

\* lines 253-255: for i in range(n): set_auxiliary_data_value(2, i - 1, 0.0)
RECURSIVE InitGamma(_, _)
InitGamma(a, n) ==
    IF n = 0 THEN a
    ELSE SetAuxiliaryDataValue(InitGamma(a, n - 1), 2, GammaInitIndex(n - 1), 0)

\* lines 262-267 and 307-310: for i in range(n):
\*     set_auxiliary_data_value(dim, i, vals[i])
RECURSIVE FillSeries(_, _, _, _)
FillSeries(a, dim, vals, n) ==
    IF n = 0 THEN a
    ELSE SetAuxiliaryDataValue(FillSeries(a, dim, vals, n - 1), dim, n - 1, vals[n])

\* the setup without the cumulative refresh of line 259
InitialAuxNoRefresh(n_train, n_levels) ==
    LET a1 == InitGamma(AllocatedAux(n_train, n_levels), n_levels - 1)
        a3 == FillSeries(a1, 1, Const(n_train, 0), n_train)
    IN  FillSeries(a3, 0, Const(n_train, 0), n_train)

\* lines 239-267: the four auxiliary series as the setup leaves them
InitialAux(n_train, n_levels) ==
    LET a1 == InitGamma(AllocatedAux(n_train, n_levels), n_levels - 1)
        a2 == [a1 EXCEPT !.cumsum = CumulativeExpSums(a1.gamma, n_levels)]
        a3 == FillSeries(a2, 1, Const(n_train, 0), n_train)
    IN  FillSeries(a3, 0, Const(n_train, 0), n_train)

\* some set_auxiliary_data_value call of the setup addresses no slot
SetupWritesOutside(n_train, n_levels) ==
    LET a == InitialAux(n_train, n_levels)
    IN  \E w \in a.set_calls : ~InSeries(a, w[1], w[2])

\* -------------------------------------------------------------- sample()
\* lines 88-133: an input check fails; nothing has been assigned yet
SampleRejectInputsOn(D, limit) ==
    /\ pc = "idle"
    /\ callNo < limit
    /\ \E d \in D :
        /\ CheckInputs(d) # "ok"
        /\ y' = d.yv
        /\ outcome' = [op |-> "sample", error |-> "ValueError", msg |-> CheckInputs(d)]
    /\ callNo' = callNo + 1
    /\ calls' = <<>>
    /\ writes' = <<>>
    /\ steps' = <<>>
    /\ UNCHANGED <<made, self, pc, cfg, keep_idx, sample_counter, it, i, keep_sample,
                   aux, active_forest>>

\* the first sample() call on the object, with any arguments
SampleRejectInputs == SampleRejectInputsOn(DataInputs, 1)

\* lines 135-171: the inputs pass, the data attributes are assigned, and the
\* level check fails
SampleRejectLevelsOn(D, limit) ==
    /\ pc = "idle"
    /\ callNo < limit
    /\ \E d \in D :
        /\ CheckInputs(d) = "ok"
        /\ TooFewLevels(NLevels(d.yv))
        /\ self' = WithDataAttributes(self, d, callNo + 1)
        /\ y' = d.yv
        /\ outcome' = [op |-> "sample", error |-> "ValueError",
                       msg |-> "y_train must have at least 2 outcome categories"]
    /\ callNo' = callNo + 1
    /\ calls' = <<>>
    /\ writes' = <<>>
    /\ steps' = <<>>
    /\ UNCHANGED <<made, pc, cfg, keep_idx, sample_counter, it, i, keep_sample,
                   aux, active_forest>>

\* the first sample() call on the object, with any arguments
SampleRejectLevels == SampleRejectLevelsOn(DataInputs, 1)

\* lines 88-270: every check passes and the run is set up
SampleSetupOn(D, C, limit) ==
    /\ pc = "idle"
    /\ callNo < limit
    /\ \E d \in D :
        /\ CheckInputs(d) = "ok"
        /\ ~TooFewLevels(NLevels(d.yv))
        /\ \E c \in C :
            /\ cfg' = c
            /\ keep_idx' = KeepIdx(c)
            /\ self' = WithContainers(WithDataAttributes(self, d, callNo + 1),
                                      c, Len(KeepIdx(c)))
        /\ y' = d.yv
        /\ aux' = InitialAux(Len(d.yv), NLevels(d.yv))
    /\ callNo' = callNo + 1
    /\ active_forest' = 0
    /\ sample_counter' = -1
    /\ it' = -1
    /\ i' = Val(self'.n_train) - 1
    /\ keep_sample' = FALSE
    /\ calls' = <<>>
    /\ writes' = <<>>
    /\ steps' = <<>>
    /\ outcome' = [op |-> "sample", error |-> "none", msg |-> "running"]
    /\ pc' = "loop"
    /\ made' = [made EXCEPT !.containers = callNo + 1, !.snapshots = callNo + 1]

\* the first sample() call on the object, with any arguments
SampleSetup == SampleSetupOn(DataInputs, Configs, 1)

\* lines 88-255: every check passes, and the store refuses the write of
\* line 255 whose element index is no slot of the cutpoint series: the
\* call ends there with the extension's error. The containers of lines
\* 190-218 are already assigned.
SetupStoreRejectsWriteOn(D, C, limit) ==
    /\ pc = "idle"
    /\ callNo < limit
    /\ \E d \in D :
        /\ CheckInputs(d) = "ok"
        /\ ~TooFewLevels(NLevels(d.yv))
        /\ SetupWritesOutside(Len(d.yv), NLevels(d.yv))
        /\ \E c \in C :
            self' = WithContainers(WithDataAttributes(self, d, callNo + 1),
                                   c, Len(KeepIdx(c)))
        /\ y' = d.yv
    /\ callNo' = callNo + 1
    /\ calls' = <<>>
    /\ writes' = <<>>
    /\ steps' = <<>>
    /\ outcome' = [op |-> "sample", error |-> "IndexError",
                   msg |-> "auxiliary element index out of range"]
    /\ UNCHANGED <<pc, cfg, keep_idx, sample_counter, it, i, keep_sample,
                   aux, active_forest>>
    /\ made' = [made EXCEPT !.containers = callNo + 1, !.snapshots = callNo + 1]

\* the first sample() call on the object, with any arguments
SetupStoreRejectsWrite == SetupStoreRejectsWriteOn(DataInputs, Configs, 1)

\* lines 88-215 with n_trees <= 0: no statement checks n_trees (line 178
\* divides by its square root, which numpy answers with inf or nan and a
\* warning), so the call arrives at Forest(n_trees, 1, True, False) of
\* line 216 with the data attributes and the four arrays assigned
SampleNonPositiveTreesOn(D, C, limit) ==
    /\ pc = "idle"
    /\ callNo < limit
    /\ \E d \in D :
        /\ CheckInputs(d) = "ok"
        /\ ~TooFewLevels(NLevels(d.yv))
        /\ \E c \in C :
            /\ cfg' = c
            /\ keep_idx' = KeepIdx(c)
            /\ self' = [WithContainers(WithDataAttributes(self, d, callNo + 1),
                                       c, Len(KeepIdx(c)))
                           EXCEPT !.forest_samples = self.forest_samples]
        /\ y' = d.yv
    /\ callNo' = callNo + 1
    /\ calls' = <<>>
    /\ writes' = <<>>
    /\ steps' = <<>>
    /\ outcome' = [op |-> "sample", error |-> "none", msg |-> "running"]
    /\ pc' = "forest_ctor"
    /\ UNCHANGED <<sample_counter, it, i, keep_sample, aux, active_forest>>
    /\ made' = [made EXCEPT !.containers = callNo + 1]

\* the first sample() call on the object, with any arguments
SampleNonPositiveTrees == SampleNonPositiveTreesOn(DataInputs, Configs, 1)

\* line 216: the extension's constructor refuses the tree count
ForestConstructorRaises ==
    /\ pc = "forest_ctor"
    /\ pc' = "idle"
    /\ outcome' = [op |-> "sample", error |-> "ExtensionError",
                   msg |-> "forest constructor failed"]
    /\ UNCHANGED <<made, self, callNo, cfg, y, keep_idx, sample_counter, it, i,
                   keep_sample, aux, active_forest, calls, writes, steps>>

\* line 216: the extension's constructor accepts the tree count; the call
\* now holds a forest of n_trees <= 0 trees
ForestConstructed ==
    /\ pc = "forest_ctor"
    /\ pc' = "forest_built"
    /\ UNCHANGED <<made, self, callNo, cfg, y, keep_idx, sample_counter, it, i,
                   keep_sample, aux, active_forest, calls, writes, steps,
                   outcome>>

\* lines 217-270: the rest of the setup, as in SampleSetup
SetupWithForest ==
    /\ pc = "forest_built"
    /\ self' = [self EXCEPT !.forest_samples = Some(<<>>)]
    /\ aux' = InitialAux(Len(y), Val(self.n_levels))
    /\ active_forest' = 0
    /\ sample_counter' = -1
    /\ it' = -1
    /\ i' = Val(self.n_train) - 1
    /\ keep_sample' = FALSE
    /\ pc' = "loop"
    /\ UNCHANGED <<callNo, cfg, y, keep_idx, calls, writes, steps, outcome>>
    /\ made' = [made EXCEPT !.snapshots = callNo]

\* a loop body that makes the retention copy before the three sampler steps
StepAfterCopyFirst(p) ==
    CASE p = "loop" -> "ensemble"
      [] p = "ensemble" -> "setpred"
      [] p = "setpred" -> "retain"
      [] p = "retain" -> "latent"
      [] p = "latent" -> "gamma"
      [] p = "gamma" -> "cumsum"
      [] p = "cumsum" -> "loop"

\* a loop body that refreshes the cumulative sums before the cutpoint update
StepAfterRefreshFirst(p) ==
    CASE p = "loop" -> "ensemble"
      [] p = "ensemble" -> "setpred"
      [] p = "setpred" -> "latent"
      [] p = "latent" -> "cumsum"
      [] p = "cumsum" -> "gamma"
      [] p = "gamma" -> "retain"
      [] p = "retain" -> "loop"

\* a loop body that updates the cutpoints before the latent variables
StepAfterGammaFirst(p) ==
    CASE p = "loop" -> "ensemble"
      [] p = "ensemble" -> "setpred"
      [] p = "setpred" -> "gamma"
      [] p = "gamma" -> "latent"
      [] p = "latent" -> "cumsum"
      [] p = "cumsum" -> "retain"
      [] p = "retain" -> "loop"

\* a loop body that writes the forest predictions after the latent update
StepAfterPredLate(p) ==
    CASE p = "loop" -> "ensemble"
      [] p = "ensemble" -> "latent"
      [] p = "latent" -> "setpred"
      [] p = "setpred" -> "gamma"
      [] p = "gamma" -> "cumsum"
      [] p = "cumsum" -> "retain"
      [] p = "retain" -> "loop"

\* lines 271-345: the statement group that follows group p in the loop body
StepAfter(p) ==
    CASE p = "loop" -> "ensemble"
      [] p = "ensemble" -> "setpred"
      [] p = "setpred" -> "latent"
      [] p = "latent" -> "gamma"
      [] p = "gamma" -> "cumsum"
      [] p = "cumsum" -> "retain"
      [] p = "retain" -> "loop"

\* line 271: the loop takes its next iteration; lines 272-274
LoopNext ==
    /\ pc = "loop"
    /\ RangeNext(it, i) < NumIterations(cfg)
    /\ it' = RangeNext(it, i)
    /\ i' = it'
    /\ keep_sample' = KeepSample(i', keep_idx)
    /\ sample_counter' = IF keep_sample' THEN sample_counter + 1 ELSE sample_counter
    /\ steps' = <<>>
    /\ pc' = StepAfter("loop")
    /\ UNCHANGED <<made, self, callNo, cfg, y, keep_idx, aux, active_forest, calls,
                   writes, outcome>>

\* a call that asks for a snapshot in every iteration
KeepForestArgumentAlways(keep) == TRUE

\* lines 285 and 298: the keep_forest argument is keep_sample
KeepForestArgument(keep) == keep

\* lines 276-302: one call of forest_sampler.sample_one_iteration.  The
\* sampler updates the active forest in place and, when keep_forest is set,
\* appends a copy of it to self.forest_samples.
EnsembleUpdate ==
    /\ pc = "ensemble"
    /\ calls' = Append(calls, [it |-> it, i |-> i,
                               keep_forest |-> KeepForestArgument(keep_sample),
                               gfr |-> GfrArgument(i, Val(self.num_gfr))])
    /\ active_forest' = ForestStamp(callNo, it)
    /\ self' = IF KeepForestArgument(keep_sample)
               THEN [self EXCEPT !.forest_samples =
                        Some(Append(Val(@), active_forest'))]
               ELSE self
    /\ steps' = Append(steps, "sample_one_iteration")
    /\ pc' = StepAfter("ensemble")
    /\ UNCHANGED <<made, callNo, cfg, y, keep_idx, sample_counter, it, i, keep_sample,
                   aux, writes, outcome>>

\* active_forest.predict(dataset) on a dataset of n rows
ForestPredict(forest, n) == Const(n, forest)

\* lines 304-310: the inner loop rebinds i and fills series 1
SetForestPredictions ==
    /\ pc = "setpred"
    /\ aux' = FillSeries(aux, 1, ForestPredict(active_forest, Val(self.n_train)),
                          Val(self.n_train))
    /\ i' = Val(self.n_train) - 1
    /\ steps' = Append(steps, "set_forest_pred")
    /\ pc' = StepAfter("setpred")
    /\ UNCHANGED <<made, self, callNo, cfg, y, keep_idx, sample_counter, it,
                   keep_sample, active_forest, calls, writes, outcome>>

\* lines 312-317
UpdateLatentVariables ==
    /\ pc = "latent"
    /\ aux' = [aux EXCEPT !.latent = Const(Val(self.n_train), LatentStamp(callNo, it))]
    /\ steps' = Append(steps, "UpdateLatentVariables")
    /\ pc' = StepAfter("latent")
    /\ UNCHANGED <<made, self, callNo, cfg, y, keep_idx, sample_counter, it, i,
                   keep_sample, active_forest, calls, writes, outcome>>

\* lines 319-327
UpdateGammaParams ==
    /\ pc = "gamma"
    /\ aux' = [aux EXCEPT !.gamma = Const(GammaSeriesLen(Val(self.n_levels)),
                                          GammaStamp(callNo, it))]
    /\ steps' = Append(steps, "UpdateGammaParams")
    /\ pc' = StepAfter("gamma")
    /\ UNCHANGED <<made, self, callNo, cfg, y, keep_idx, sample_counter, it, i,
                   keep_sample, active_forest, calls, writes, outcome>>

\* lines 329-332
UpdateCumulativeExpSums ==
    /\ pc = "cumsum"
    /\ aux' = [aux EXCEPT !.cumsum = CumulativeExpSums(aux.gamma, Val(self.n_levels))]
    /\ steps' = Append(steps, "UpdateCumulativeExpSums")
    /\ pc' = StepAfter("cumsum")
    /\ UNCHANGED <<made, self, callNo, cfg, y, keep_idx, sample_counter, it, i,
                   keep_sample, active_forest, calls, writes, outcome>>

\* container[:, s] = col  (s is 0-based)
SetColumn(container, s, col) == Some([Val(container) EXCEPT ![s + 1] = col])

\* a retention copy indexed by the counter's value before the increment
RetainColumnStale(counter) == counter - 1

\* the column the retention copy writes: lines 335, 339, 343, 345
RetainColumn(counter) == counter

\* line 342: get_auxiliary_data_array(2)
GammaCurrent(a) == a.gamma

\* the latent copy reading series 1 (the forest predictions) instead of 0
LatentCurrentWrongSeries(a) == a.pred

\* line 344: get_auxiliary_data_array(0)
LatentCurrent(a) == a.latent

\* lines 334-345: the retention copy of a kept iteration
Retain ==
    /\ pc = "retain"
    /\ keep_sample
    /\ self' = [self EXCEPT
            !.forest_pred_train =
                SetColumn(@, RetainColumn(sample_counter),
                          ForestPredict(active_forest, Val(self.n_train))),
            !.forest_pred_test =
                IF Val(self.has_test)
                THEN SetColumn(@, RetainColumn(sample_counter),
                               ForestPredict(active_forest, Val(self.n_test)))
                ELSE @,
            !.gamma_samples = SetColumn(@, RetainColumn(sample_counter), GammaCurrent(aux)),
            !.latent_samples = SetColumn(@, RetainColumn(sample_counter), LatentCurrent(aux))]
    /\ writes' = Append(writes, [col |-> RetainColumn(sample_counter), it |-> it,
                                 test_pred |-> Val(self.has_test)])
    /\ steps' = Append(steps, "retain")
    /\ pc' = StepAfter("retain")
    /\ UNCHANGED <<made, callNo, cfg, y, keep_idx, sample_counter, it, i, keep_sample,
                   aux, active_forest, calls, outcome>>

\* line 334: an iteration that is not kept copies nothing
SkipRetain ==
    /\ pc = "retain"
    /\ ~keep_sample
    /\ pc' = StepAfter("retain")
    /\ UNCHANGED <<made, self, callNo, cfg, y, keep_idx, sample_counter, it, i,
                   keep_sample, aux, active_forest, calls, writes, steps, outcome>>

\* lines 347-348: the loop is exhausted; the locals keep their last values
SampleFinish ==
    /\ pc = "loop"
    /\ ~(RangeNext(it, i) < NumIterations(cfg))
    /\ self' = [self EXCEPT !.sampled = Some(TRUE)]
    /\ outcome' = [op |-> "sample", error |-> "none", msg |-> "completed"]
    /\ pc' = "idle"
    /\ UNCHANGED <<callNo, cfg, y, keep_idx, sample_counter, it, i, keep_sample,
                   aux, active_forest, calls, writes, steps>>
    /\ made' = [made EXCEPT !.completed = @ \cup {callNo}]

\* ------------------------------------------------------------- predict()
\* lines 690-697
is_sampled == Val(self.sampled)

\* a predict() that keeps its result on the object as forest_pred_test
PredictStoresResult ==
    /\ pc = "idle"
    /\ \E X \in XKinds :
        /\ outcome' =
            IF ~is_sampled
            THEN [op |-> "predict", error |-> "NotSampledError",
                  msg |-> "This CloglogOrdinalBARTModel instance is not fitted yet."]
            ELSE IF X = "list"
            THEN [op |-> "predict", error |-> "ValueError",
                  msg |-> "X must be a pandas dataframe or numpy array"]
            ELSE [op |-> "predict", error |-> "none", msg |-> "returned"]
        /\ self' = IF is_sampled /\ X # "list"
                   THEN [self EXCEPT !.forest_pred_test = self.forest_pred_train]
                   ELSE self
    /\ UNCHANGED <<made, pc, callNo, cfg, y, keep_idx, sample_counter, it, i,
                   keep_sample, aux, active_forest, calls, writes, steps>>

\* lines 366-412; X is the kind of the argument.  The forest predictions
\* are one column per snapshot of self.forest_samples.
Predict ==
    /\ pc = "idle"
    /\ \E X \in XKinds :
        outcome' =
            IF ~is_sampled
            THEN [op |-> "predict", error |-> "NotSampledError",
                  msg |-> "This CloglogOrdinalBARTModel instance is not fitted yet."]
            ELSE IF X = "list"
            THEN [op |-> "predict", error |-> "ValueError",
                  msg |-> "X must be a pandas dataframe or numpy array"]
            ELSE [op |-> "predict", error |-> "none", msg |-> "returned"]
    /\ UNCHANGED <<made, self, pc, callNo, cfg, y, keep_idx, sample_counter, it, i,
                   keep_sample, aux, active_forest, calls, writes, steps>>

Next ==
    \/ SampleRejectInputs
    \/ SampleRejectLevels
    \/ SampleSetup
    \/ SetupStoreRejectsWrite
    \/ SampleNonPositiveTrees
    \/ ForestConstructorRaises
    \/ ForestConstructed
    \/ SetupWithForest
    \/ LoopNext
    \/ EnsembleUpdate
    \/ SetForestPredictions
    \/ UpdateLatentVariables
    \/ UpdateGammaParams
    \/ UpdateCumulativeExpSums
    \/ Retain
    \/ SkipRetain
    \/ SampleFinish
    \/ Predict

\* one model object through its first sample() call and later predict() calls
Spec == Init /\ [][Next]_vars

\* ------------------------------------------- several calls, failing steps
MaxCalls == 2

\* one valid data set of one row (y = [1], two categories), the same with
\* y = [0] (one category), and a call whose X_train is a list
FewData ==
    {d \in DataInputs :
        /\ d.X_train \in {"ndarray", "list"}
        /\ d.x_rows = 1 /\ d.x_cols = 1
        /\ d.X_test = "None" /\ d.test_cols = 1
        /\ d.y_kind = "int_ndarray" /\ d.weights = "None"
        /\ Len(d.yv) = 1
        /\ d.yv[1] \in (IF d.X_train = "list" THEN {1} ELSE {0, 1})}

\* one burn-in iteration followed by one kept iteration
FewConfigs ==
    {c \in Configs : c.num_gfr = 0 /\ c.num_burnin = 1 /\ c.num_mcmc = 1
                        /\ c.n_thin = 1}

\* a driver that catches the exception of the step at p and goes on
AfterFailureResume(p) == StepAfter(p)

\* lines 271-348: no statement of the loop is inside a try block, so an
\* exception raised by the step at p ends sample() at once
AfterFailure(p) == "idle"

\* lines 276-335: the compiled step the run stands before raises (for the
\* retention copy: the first statement of the copy, line 335)
StepFails ==
    /\ \/ pc \in {"ensemble", "setpred", "latent", "gamma", "cumsum"}
       \/ pc = "retain" /\ keep_sample
    /\ pc' = AfterFailure(pc)
    /\ outcome' = [op |-> "sample", error |-> "RuntimeError", msg |-> pc]
    /\ UNCHANGED <<self, callNo, cfg, y, keep_idx, sample_counter, it, i,
                   keep_sample, aux, active_forest, calls, writes, steps, made>>

\* lines 335-345: the copy of forest_pred_train is made and a later
\* statement of the retention copy raises
RetainFails ==
    /\ pc = "retain"
    /\ keep_sample
    /\ self' = [self EXCEPT
            !.forest_pred_train =
                SetColumn(@, RetainColumn(sample_counter),
                          ForestPredict(active_forest, Val(self.n_train)))]
    /\ pc' = AfterFailure(pc)
    /\ outcome' = [op |-> "sample", error |-> "RuntimeError", msg |-> pc]
    /\ UNCHANGED <<callNo, cfg, y, keep_idx, sample_counter, it, i,
                   keep_sample, aux, active_forest, calls, writes, steps, made>>

\* up to MaxCalls sample() calls on one object
AgainRejectInputs == SampleRejectInputsOn(FewData, MaxCalls)

AgainRejectLevels == SampleRejectLevelsOn(FewData, MaxCalls)

AgainSetup == SampleSetupOn(FewData, FewConfigs, MaxCalls)

AgainStoreRejectsWrite == SetupStoreRejectsWriteOn(FewData, FewConfigs, MaxCalls)

AgainNonPositiveTrees == SampleNonPositiveTreesOn(FewData, FewConfigs, MaxCalls)

LifecycleNext ==
    \/ AgainRejectInputs
    \/ AgainRejectLevels
    \/ AgainSetup
    \/ AgainStoreRejectsWrite
    \/ AgainNonPositiveTrees
    \/ ForestConstructorRaises
    \/ ForestConstructed
    \/ SetupWithForest
    \/ LoopNext
    \/ EnsembleUpdate
    \/ SetForestPredictions
    \/ UpdateLatentVariables
    \/ UpdateGammaParams
    \/ UpdateCumulativeExpSums
    \/ Retain
    \/ SkipRetain
    \/ StepFails
    \/ RetainFails
    \/ SampleFinish
    \/ Predict

\* one model object through several sample() calls, any of which may be
\* rejected, fail in a step or complete, with predict() calls in between
LifecycleSpec == Init /\ [][LifecycleNext]_vars

\* ================================================================ claims
Completed == outcome.op = "sample" /\ outcome.msg = "completed"

SampleRaised == outcome.op = "sample" /\ outcome.error = "ValueError"

\* C1 (as claimed): every sample_one_iteration call of iteration t passes
\* gfr = True exactly when t < num_gfr, and gfr = False when t >= num_gfr.
C1_GfrIffWarmStart ==
    \A k \in 1..Len(calls) : calls[k].gfr = (calls[k].it < Val(self.num_gfr))

\* C2: the sampler calls of a run are those of iterations 0, 1, 2, ... in
\* order, one per iteration; the phase and the retention decision of each
\* were taken with i equal to the iteration's index although the inner loop
\* rebinds i; a completed run made exactly T = num_gfr + num_burnin +
\* num_mcmc calls.
C2_ExactlyTIterations ==
    /\ \A k \in 1..Len(calls) :
        /\ calls[k].it = k - 1
        /\ calls[k].i = k - 1
        /\ calls[k].keep_forest = InArray(k - 1, keep_idx)
    /\ pc = "ensemble" => Len(calls) = it
    /\ pc \in {"setpred", "latent", "gamma", "cumsum", "retain", "loop"}
        => Len(calls) = it + 1
    /\ Completed => Len(calls) = cfg.num_gfr + cfg.num_burnin + cfg.num_mcmc

\* a completed run of at least three iterations on two or more rows, whose
\* inner loop left i different from the iteration index
C2_Witness ==
    /\ Completed
    /\ Len(calls) >= 3
    /\ Len(y) >= 2
    /\ i # it

\* C3 (as claimed): a sample() call with num_mcmc = 0 is rejected: it never
\* calls sample_one_iteration and never runs to completion.
C3_ZeroMcmcRejected ==
    (IsSet(self.num_mcmc) /\ Val(self.num_mcmc) = 0)
        => (calls = <<>> /\ ~Completed)

\* the last y_train passed to sample() holds one value v in every entry
AllEqual(v) == y # <<>> /\ \A k \in 1..Len(y) : y[k] = v

\* C4 (as claimed): whenever y_train holds one single non-negative value in
\* every entry, sample() runs no iteration and returns by raising.
C4_SingleValueRejected ==
    (outcome.op = "sample" /\ \E v \in 0..MaxLevel : AllEqual(v))
        => (calls = <<>> /\ (pc = "idle" => SampleRaised))

\* C4 (amended): whenever every entry of y_train is 0, so that
\* n_levels = max(y_train) + 1 = 1, sample() raises a ValueError and runs
\* no iteration.
C4_AllZeroRejected ==
    (outcome.op = "sample" /\ AllEqual(0))
        => (calls = <<>> /\ (pc = "idle" => SampleRaised /\ ~is_sampled))

\* an otherwise valid call with y_train = [0, 0] was rejected by the level
\* check
C4_Witness ==
    /\ AllEqual(0)
    /\ Len(y) = 2
    /\ SampleRaised
    /\ outcome.msg = "y_train must have at least 2 outcome categories"
    /\ calls = <<>>

\* the model holds no retained iteration
NoRetainedIteration ==
    ~IsSet(self.forest_samples) \/ Val(self.forest_samples) = <<>>

\* C5 (as claimed): a predict() call on a model that holds no retained
\* iteration ends in NotSampledError.
C5_PredictWithoutRetainedRaises ==
    (outcome.op = "predict" /\ NoRetainedIteration)
        => outcome.error = "NotSampledError"

\* C6: the retention copies of a run write columns 0, 1, 2, ... in this
\* order, the s-th of them during the s-th iteration of keep_idx; a
\* completed run has sample_counter + 1 = len(keep_idx), has written every
\* column once and has left no column empty.
C6_ColumnsFilledInOrder ==
    /\ \A k \in 1..Len(writes) :
        /\ k <= Len(keep_idx)
        /\ writes[k].col = k - 1
        /\ writes[k].it = keep_idx[k]
    /\ Completed =>
        /\ sample_counter + 1 = Len(keep_idx)
        /\ Len(writes) = Len(keep_idx)
        /\ Len(Val(self.latent_samples)) = Len(keep_idx)
        /\ \A s \in 1..Len(keep_idx) :
            /\ Val(self.forest_pred_train)[s] # Empty
            /\ Val(self.gamma_samples)[s] # Empty
            /\ Val(self.latent_samples)[s] # Empty

\* a completed run that kept two draws with an unkept iteration between them
C6_Witness ==
    /\ Completed
    /\ Len(writes) = 2
    /\ writes[2].it = writes[1].it + 2
    /\ Val(self.latent_samples)[2] # Empty

\* the iterations num_gfr + num_burnin + j * n_thin, j >= 0, below T
RetainedByContract(t) ==
    /\ t >= cfg.num_gfr + cfg.num_burnin
    /\ t < cfg.num_gfr + cfg.num_burnin + cfg.num_mcmc
    /\ (t - (cfg.num_gfr + cfg.num_burnin)) % cfg.n_thin = 0

\* C7: an iteration is retained (asked to be persisted, and copied into the
\* containers) exactly when it is num_gfr + num_burnin + j * n_thin for some
\* j >= 0 and below T; so no warm-start and no burn-in iteration is
\* retained, and with num_mcmc > 0 the first iteration after the burn-in is.
C7_RetainedSetIsProgression ==
    /\ \A k \in 1..Len(calls) : calls[k].keep_forest = RetainedByContract(calls[k].it)
    /\ \A k \in 1..Len(writes) :
        /\ RetainedByContract(writes[k].it)
        /\ writes[k].it >= cfg.num_gfr + cfg.num_burnin
    /\ Completed =>
        /\ {writes[k].it : k \in 1..Len(writes)}
             = {t \in 0..(cfg.num_gfr + cfg.num_burnin + cfg.num_mcmc - 1) :
                    RetainedByContract(t)}
        /\ cfg.num_mcmc > 0 =>
             \E k \in 1..Len(writes) : writes[k].it = cfg.num_gfr + cfg.num_burnin

\* a completed run with a warm start, a burn-in and thinning that retained
\* iterations 2 and 4 only
C7_Witness ==
    /\ Completed
    /\ cfg.num_gfr = 1
    /\ cfg.num_burnin = 1
    /\ cfg.n_thin = 2
    /\ {writes[k].it : k \in 1..Len(writes)} = {2, 4}

\* the copy of iteration keep_idx[s] has been made
ColumnDone(s) ==
    \/ keep_idx[s] < it
    \/ keep_idx[s] = it /\ pc \in {"loop", "idle"}

\* C8: at every point of a run, column s of each container holds the state
\* at the end of iteration keep_idx[s] (that iteration's forest, cutpoints
\* and latent values) once that iteration's copy is made, and is still
\* unwritten before; so no other iteration writes a container.
C8_ColumnsHoldOwnIteration ==
    IsSet(self.latent_samples) =>
        \A s \in 1..Len(keep_idx) :
            IF ColumnDone(s)
            THEN /\ Val(self.forest_pred_train)[s]
                      = Const(Val(self.n_train), ForestStamp(callNo, keep_idx[s]))
                 /\ Val(self.has_test) =>
                      Val(self.forest_pred_test)[s]
                        = Const(Val(self.n_test), ForestStamp(callNo, keep_idx[s]))
                 /\ Val(self.gamma_samples)[s]
                      = Const(Val(self.n_levels) - 1, GammaStamp(callNo, keep_idx[s]))
                 /\ Val(self.latent_samples)[s]
                      = Const(Val(self.n_train), LatentStamp(callNo, keep_idx[s]))
            ELSE /\ Val(self.forest_pred_train)[s] = Empty
                 /\ Val(self.has_test) => Val(self.forest_pred_test)[s] = Empty
                 /\ Val(self.gamma_samples)[s] = Empty
                 /\ Val(self.latent_samples)[s] = Empty

\* a run with a held-out set, between the copy of its first kept iteration
\* and that of its second, in an iteration that is not kept
C8_Witness ==
    /\ pc = "retain"
    /\ ~keep_sample
    /\ Len(keep_idx) = 2
    /\ Val(self.has_test)
    /\ Val(self.forest_pred_test)[1] # Empty
    /\ Val(self.latent_samples)[2] = Empty

\* C9: when sample() reports an input validation error, no
\* sample_one_iteration call has been made and the auxiliary series do not
\* exist yet; and no sampler call is ever made on data the checks reject
\* (a negative outcome, fewer than two categories).
C9_ValidationBeforeSampling ==
    /\ SampleRaised => (calls = <<>> /\ aux = NoAux /\ pc = "idle" /\ it = -1)
    /\ calls # <<>> =>
        /\ \A k \in 1..Len(y) : y[k] >= 0
        /\ Val(self.n_levels) >= 2
        /\ Len(y) = Val(self.n_train)

\* a call was rejected because of a negative outcome
C9_Witness ==
    /\ SampleRaised
    /\ outcome.msg = "y_train must be non-negative integer-valued"
    /\ \E k \in 1..Len(y) : y[k] < 0
    /\ calls = <<>>

\* C10 (as claimed): after a sample() call that failed with a validation
\* error, every attribute of the model object is as before the call (here:
\* as after construction).
C10_FailedCallLeavesNoState ==
    SampleRaised => self = FreshSelf

\* C11: every entry of every written column of latent_samples is > 0: a
\* retention copy is made after the iteration's latent update, so the zero
\* of the initialisation is never copied.
C11_RetainedLatentPositive ==
    IsSet(self.latent_samples) =>
        \A s \in 1..Len(Val(self.latent_samples)) :
            LET col == Val(self.latent_samples)[s]
            IN  col # Empty =>
                    /\ Len(col) = Val(self.n_train)
                    /\ \A k \in 1..Len(col) : col[k] > 0

\* iteration 0 is kept and its column holds the positive draws of iteration 0
C11_Witness ==
    /\ Len(writes) >= 1
    /\ writes[1].it = 0
    /\ Val(self.latent_samples)[1] = Const(Val(self.n_train), LatentStamp(callNo, 0))
    /\ Val(self.latent_samples)[1][1] > 0

RefreshedFrom ==
    IF pc = "cumsum"
    THEN IF it = 0 THEN Const(Val(self.n_levels) - 1, 0)
         ELSE Const(Val(self.n_levels) - 1, GammaStamp(callNo, it - 1))
    ELSE aux.gamma

\* C13: the cumulative series always starts at 0, is non-decreasing and
\* satisfies c[k+1] = c[k] + exp(g[k]) for the vector g it was last
\* refreshed from; g is the current cutpoint vector everywhere except
\* between a cutpoint update and the refresh that follows it, so at the end
\* of every iteration the series belongs to the current vector and no
\* statement but the refresh changes it.
C13_CumulativeSumsDerived ==
    aux # NoAux =>
        LET K == Val(self.n_levels)
            c == aux.cumsum
        IN  /\ Len(c) = K
            /\ c[1] = 0
            /\ \A k \in 1..(K - 1) :
                /\ c[k] <= c[k + 1]
                /\ c[k + 1] = c[k] + Exp(RefreshedFrom[k])

\* the end of iteration 1 on three categories: the series holds the sums
\* of that iteration's cutpoints
C13_Witness ==
    /\ pc = "retain"
    /\ it = 1
    /\ Val(self.n_levels) = 3
    /\ aux.gamma = Const(2, GammaStamp(callNo, 1))
    /\ aux.cumsum = <<0, Exp(GammaStamp(callNo, 1)), 2 * Exp(GammaStamp(callNo, 1))>>

\* the input checks of the sample() call have passed
ChecksPassed == outcome.op = "sample" /\ outcome.error = "none"

\* C15: once the input checks have passed, n_levels >= 2 and every
\* training outcome lies in 0..n_levels-1, in particular at every latent
\* update and cutpoint update.
C15_OutcomesWithinLevels ==
    (ChecksPassed \/ pc \in {"latent", "gamma"}) =>
        /\ Val(self.n_levels) >= 2
        /\ Len(y) = Val(self.n_train)
        /\ \A k \in 1..Len(y) : 0 <= y[k] /\ y[k] <= Val(self.n_levels) - 1

\* a latent update on outcomes that skip a category: y = (0, 2), K = 3
C15_Witness ==
    /\ pc = "latent"
    /\ y = <<0, 2>>
    /\ Val(self.n_levels) = 3

\* C16 (as claimed): a call with n_trees <= 0 ends with a configuration
\* error before a forest is constructed, so no call ever holds a forest
\* that was constructed with a non-positive tree count.
C16_NonPositiveTreesRejected == pc # "forest_built"

\* the groups of one loop body in the order of the source text
BodyOrder ==
    <<"sample_one_iteration", "set_forest_pred", "UpdateLatentVariables",
      "UpdateGammaParams", "UpdateCumulativeExpSums">>

\* the number of groups of the current iteration that have run when the
\* run stands before group p
GroupsBefore(p) ==
    CASE p = "ensemble" -> 0
      [] p = "setpred" -> 1
      [] p = "latent" -> 2
      [] p = "gamma" -> 3
      [] p = "cumsum" -> 4
      [] p = "retain" -> 5

\* C17: the steps an iteration has run so far are always a prefix of
\* ensemble update, prediction write, latent update, cutpoint update,
\* cumulative refresh, retention copy, each at most once and the copy only
\* in a kept iteration; an iteration has run all of them when the next one
\* starts or the run ends.
C17_StepsInOrder ==
    /\ pc \in {"ensemble", "setpred", "latent", "gamma", "cumsum", "retain"} =>
        steps = SubSeq(BodyOrder, 1, GroupsBefore(pc))
    /\ ((pc = "loop" \/ Completed) /\ it >= 0) =>
        steps = IF keep_sample THEN Append(BodyOrder, "retain") ELSE BodyOrder
    /\ (pc = "loop" /\ it = -1) => steps = <<>>
    /\ Len(calls) = (IF it >= 0 /\ steps # <<>> THEN it + 1 ELSE Max(it, 0))

\* the second iteration has run its six steps and the third has not begun
C17_Witness ==
    /\ pc = "loop"
    /\ it = 1
    /\ Len(steps) = 6
    /\ steps[6] = "retain"
    /\ steps[3] = "UpdateLatentVariables"

\* C18: when the latent update or the cutpoint update of iteration t is
\* about to run, every forest-prediction slot holds the prediction of the
\* forest left by the ensemble update of iteration t.
C18_PredictionsOfSameIteration ==
    pc \in {"latent", "gamma"} =>
        /\ Len(calls) = it + 1
        /\ calls[it + 1].it = it
        /\ active_forest = ForestStamp(callNo, it)
        /\ aux.pred = Const(Val(self.n_train), ForestStamp(callNo, it))

\* the cutpoint update of the second iteration is about to read the
\* second iteration's predictions
C18_Witness ==
    /\ pc = "gamma"
    /\ it = 1
    /\ Val(self.n_train) = 2
    /\ aux.pred = <<ForestStamp(callNo, 1), ForestStamp(callNo, 1)>>

\* C19: whenever a latent update is about to run, the cumulative series
\* equals the sums of the current cutpoint vector: in the first iteration
\* the sums of the initial cutpoints, later those of the previous
\* iteration's draw.
C19_LatentReadsRefreshedSums ==
    pc = "latent" =>
        /\ aux.cumsum = CumulativeExpSums(aux.gamma, Val(self.n_levels))
        /\ aux.gamma = (IF it = 0 THEN Const(Val(self.n_levels) - 1, 0)
                        ELSE Const(Val(self.n_levels) - 1, GammaStamp(callNo, it - 1)))

\* the first latent update reads the sums of the initial cutpoints, the
\* second those of the first draw
C19_Witness ==
    /\ pc = "latent"
    /\ it = 0
    /\ Val(self.n_levels) = 2
    /\ aux.cumsum = <<0, Exp(0)>>

\* the slots the initialisation has to set: the latent and the prediction
\* series 0..n_train-1, the cutpoint series 0..K-2
SlotsToInitialise ==
    {<<0, k>> : k \in 0..(Val(self.n_train) - 1)}
        \cup {<<1, k>> : k \in 0..(Val(self.n_train) - 1)}
        \cup {<<2, k>> : k \in 0..(Val(self.n_levels) - 2)}

\* C20 (as claimed): when the first iteration is about to start, the
\* initialisation code has set every slot of the latent, the prediction
\* and the cutpoint series, and only slots of these series, to zero.
C20_InitialisationSetsEverySlot ==
    (pc = "loop" /\ it = -1) =>
        /\ SlotsToInitialise \subseteq aux.set_calls
        /\ \A w \in aux.set_calls : InSeries(aux, w[1], w[2])
        /\ \A w \in SlotsToInitialise : Series(aux, w[1])[w[2] + 1] = 0


\* C21 (as claimed): whenever a sampler that reads the latent series is
\* about to run (the ensemble update, whose target is the augmented data,
\* and the cutpoint update), every latent slot holds a value > 0.
C21_LatentPositiveWhenRead ==
    pc \in {"ensemble", "gamma"} =>
        \A k \in 1..Len(aux.latent) : aux.latent[k] > 0

\* C22 (as claimed): at the end of every iteration the training
\* predictions of that iteration's forest are in series 1 and, when a
\* held-out set is configured, that iteration has computed and stored the
\* held-out predictions too.
C22_HeldOutPredictionsEveryIteration ==
    (pc = "loop" /\ it >= 0) =>
        /\ aux.pred = Const(Val(self.n_train), ForestStamp(callNo, it))
        /\ Val(self.has_test) =>
            \E k \in 1..Len(writes) : writes[k].it = it /\ writes[k].test_pred

\* C23: the sampler is asked for a snapshot exactly in the iterations of
\* keep_idx; the snapshot sequence holds one entry per such call, entry s
\* being the forest of iteration keep_idx[s] (appended once, never
\* changed); between iterations and after the run it is as long as the
\* number of filled columns, and column s of forest_pred_train holds the
\* predictions of snapshot s.
C23_SnapshotsMatchColumns ==
    (IsSet(self.forest_samples) /\ aux # NoAux) =>
        LET snaps == Val(self.forest_samples)
        IN  /\ \A k \in 1..Len(calls) :
                calls[k].keep_forest = InArray(calls[k].it, keep_idx)
            /\ Len(snaps) = Cardinality({k \in 1..Len(calls) : calls[k].keep_forest})
            /\ \A s \in 1..Len(snaps) :
                /\ s <= Len(keep_idx)
                /\ snaps[s] = ForestStamp(callNo, keep_idx[s])
            /\ Len(writes) <= Len(snaps)
            /\ pc \in {"loop", "idle"} => Len(snaps) = Len(writes)
            /\ \A s \in 1..Len(writes) :
                Val(self.forest_pred_train)[s] = Const(Val(self.n_train), snaps[s])

\* a completed run with a burn-in that kept two snapshots, the second in
\* step with the second column
C23_Witness ==
    /\ Completed
    /\ cfg.num_burnin = 1
    /\ Len(Val(self.forest_samples)) = 2
    /\ Len(calls) > 2
    /\ Val(self.forest_pred_train)[2]
         = Const(Val(self.n_train), Val(self.forest_samples)[2])

\* C25: a predict() call, whether it returns or raises, leaves every
\* attribute of the model object as it was: the containers, the snapshot
\* sequence, the preprocessor and the sampled flag.
C25_PredictReadOnly ==
    [][(pc = "idle" /\ pc' = "idle" /\ outcome'.op = "predict") => self' = self]_vars

\* a predict() call returned on a model that holds two retained draws
C25_Witness ==
    /\ outcome.op = "predict"
    /\ outcome.error = "none"
    /\ is_sampled
    /\ Len(Val(self.forest_samples)) = 2
    /\ Val(self.latent_samples)[2] # Empty

\* C27 (as claimed): every set_auxiliary_data_value call of sample()
\* addresses an element index that is a slot of the addressed series.
C27_WritesAddressSlots ==
    \A w \in aux.set_calls : InSeries(aux, w[1], w[2])


\* a step of the last sample() call raised
Aborted == outcome.op = "sample" /\ outcome.error = "RuntimeError"

\* C24: when a step of iteration i raises, sample() has returned with that
\* error: the call is not completed, the steps run in iteration i are
\* exactly those before the failing one (it is not retried, no later step
\* ran), no iteration after i has started, and the containers hold no
\* retention copy of iteration i or later except the part of the copy made
\* before the statement that raised.
C24_FailureAborts ==
    Aborted =>
        /\ pc = "idle"
        /\ callNo \notin made.completed
        /\ steps = SubSeq(BodyOrder, 1, GroupsBefore(outcome.msg))
        /\ Len(calls) = (IF outcome.msg = "ensemble" THEN it ELSE it + 1)
        /\ \A k \in 1..Len(calls) : calls[k].it <= it
        /\ \A k \in 1..Len(writes) : writes[k].it < it
        /\ \A s \in 1..Len(keep_idx) :
            keep_idx[s] >= it =>
                /\ Val(self.gamma_samples)[s] = Empty
                /\ Val(self.latent_samples)[s] = Empty
                /\ (keep_idx[s] > it \/ outcome.msg # "retain") =>
                        Val(self.forest_pred_train)[s] = Empty

\* the cutpoint update of the second iteration of a call raised
C24_Witness ==
    /\ Aborted
    /\ outcome.msg = "gamma"
    /\ it = 1
    /\ Len(steps) = 3
    /\ Val(self.latent_samples)[1] = Empty

\* C26 (as claimed): whenever is_sampled() is True, the preprocessor, the
\* snapshot sequence and the containers on the object were all created by
\* one sample() call, and that call ran to completion.
C26_SampledStateFromOneCompletedCall ==
    is_sampled =>
        \E c \in made.completed :
            /\ Val(self.covariate_preprocessor) = c
            /\ made.containers = c
            /\ made.snapshots = c

====
